---- MODULE Spec2Model ----
(***************************************************************************)
(* A model of the tessellation and quantization utilities of lattice-morph *)
(* (src/src/utils/tessellation.js, src/src/utils/quantization.js) and of   *)
(* the places of src/src/App.jsx that call them.                           *)
(*                                                                         *)
(* The module holds several state machines over one set of variables; a    *)
(* specification leaves the variables of the other machines at their       *)
(* initial values.                                                         *)
(*   SpecAlt    getAlternationIndex and its use as a buffer index          *)
(*   SpecQuant  quantizeImage on small RGBA buffers                        *)
(*   SpecSample the stride sample of quantizeImage on long candidate lists *)
(*   SpecRelax  computeVoronoi / relaxPoints, turn after turn              *)
(*   SpecPixel  the pixel sampling of renderScene at arbitrary coordinates *)
(*   SpecHex    the hexagon loop of renderScene over solid buffers         *)
(*   SpecTimer  the render trigger: the 50 ms timer and renderScene's runs *)
(***************************************************************************)
EXTENDS Integers, Sequences, FiniteSets, TLC

VARIABLES
    \* getAlternationIndex(col, row, pattern, imageCount) -> imgIdx
    col, row, pattern, imageCount, imgIdx, altPc,
    \* quantizeImage(pixelData, colorCount): the caller's buffer, the buffer it
    \* had handed over (kept for comparison), the palette of the colour map,
    \* the buffer allocated by the call, and which buffer the call returned
    pixelData, callerCopy, colorCount, palette, newPixelData, returned, quantPc,
    \* the stride sample of quantizeImage on a long candidate list
    candidateCount, sampleCount, samplePc,
    \* the stipple loop of renderScene: the canvas (width an integer, height
    \* = maxWidth * aspect a fraction), imagePixelData[0], the current points, the subdivision of the last turn with the points it was
    \* built from, and the number of turns done
    width, height, density, points, voronoi, prevPoints, iteration, relaxPc,
    \* the drawing loops of renderScene: width (an integer) and height
    \* (= maxWidth * aspect, in units of 1/1000), the buffers of
    \* imagePixelData, the slider value scale, the loop counters of the hexagon
    \* loop, and the last cell drawn
    bufWidth, bufHeight, imagePixelData, scale, hexRow, hexCol, cell, renderPc,
    \* the render trigger: the number of changes of scale, gap, mode, images,
    \* pattern or stippleIterations so far (it names the state values of the
    \* latest change), images.length, the pending timers of the effect, the
    \* calls of renderScene that wait in their await, isProcessing, and the
    \* change whose values the canvas shows
    changes, imagesLength, timeouts, renders, isProcessing, drawn

altVars == << col, row, pattern, imageCount, imgIdx, altPc >>

quantVars == << pixelData, callerCopy, colorCount, palette, newPixelData,
                returned, quantPc >>

sampleVars == << candidateCount, sampleCount, samplePc >>

relaxVars == << width, height, density, points, voronoi, prevPoints,
                iteration, relaxPc >>

renderVars == << bufWidth, bufHeight, imagePixelData, scale, hexRow, hexCol,
                 cell, renderPc >>

timerVars == << changes, imagesLength, timeouts, renders, isProcessing, drawn >>

vars == << altVars, quantVars, sampleVars, relaxVars, renderVars, timerVars >>

----------------------------------------------------------------------------
(* Bounds of the model.                                                    *)

\* |col|, |row| <= MaxCoord
MaxCoord == 5

\* 1 <= imageCount <= MaxImages
MaxImages == 4

\* a buffer handed to quantizeImage holds at most MaxPixels pixels
MaxPixels == 3

\* a colour map's palette holds at most MaxPalette colours
MaxPalette == 2

\* a point set holds at most MaxSites points
MaxSites == 2

\* at most MaxIterations turns of the stipple loop
MaxIterations == 2

\* candidate lists of maxSamples - SampleSpan .. maxSamples + SampleSpan pixels
SampleSpan == 60

\* the buffers sampled at arbitrary coordinates are at most MaxBufSide wide
\* and MaxBufSide high
MaxBufSide == 3

\* the buffers of the hexagon loop are 8 .. MaxHexSide wide and high
MaxHexSide == 11

\* at most MaxChanges changes of the state that the render trigger watches
MaxChanges == 4

----------------------------------------------------------------------------
(* A machine that a specification does not run stays idle.                 *)

IdleAlt ==
    /\ col = 0 /\ row = 0 /\ pattern = "checkerboard" /\ imageCount = 1
    /\ imgIdx = -1 /\ altPc = "idle"

IdleQuant ==
    /\ pixelData = << >> /\ callerCopy = << >> /\ colorCount = 0
    /\ palette = << >> /\ newPixelData = << >>
    /\ returned = "none" /\ quantPc = "idle"

IdleSample == candidateCount = 0 /\ sampleCount = 0 /\ samplePc = "idle"

NoVoronoi ==
    [ points |-> << >>, hasCell |-> << >>, xmax |-> 0, ymax |-> << 0, 1 >> ]

IdleRelax ==
    /\ width = 1 /\ height = << 1, 1 >> /\ density = << >> /\ points = << >>
    /\ voronoi = NoVoronoi /\ prevPoints = << >> /\ iteration = 0
    /\ relaxPc = "idle"

NoCell == [ col |-> 0, row |-> 0, x |-> 0, y |-> 0, imgIdx |-> -1,
            sampleX |-> 0, sampleY |-> 0, idx |-> 0, color |-> << >> ]

IdleRender ==
    /\ bufWidth = 1 /\ bufHeight = 1000 /\ imagePixelData = << >> /\ scale = 12
    /\ hexRow = -1 /\ hexCol = -1 /\ cell = NoCell /\ renderPc = "idle"

IdleTimer ==
    /\ changes = 0 /\ imagesLength = 0 /\ timeouts = {} /\ renders = {}
    /\ isProcessing = FALSE /\ drawn = -1

----------------------------------------------------------------------------
(* JavaScript arithmetic on integer-valued numbers.                        *)

\* Math.abs
Abs(n) == IF n < 0 THEN -n ELSE n

\* n % m of JavaScript: the remainder takes the sign of the dividend.
JsRem(n, m) == IF n >= 0 THEN n % m ELSE -((-n) % m)

\* Non-integer numbers are fixed-point: an integer v stands for v / 1000.
\* Math.floor of the fixed-point number v, as an integer.
MathFloor(v) == v \div 1000

----------------------------------------------------------------------------
(* tessellation.js: getAlternationIndex                                    *)

\* A faulty variant of safeMod: the plain remainder, negative for negative n.
safeModPlainRem(n, m) == JsRem(n, m)

\* const safeMod = (n, m) => ((n % m) + m) % m;
safeMod(n, m) == JsRem(JsRem(n, m) + m, m)

\* Math.sin(col * 12.9898 + row * 78.233) * 43758.5453 in IEEE doubles, rounded
\* to three decimals, for -7 <= col, row <= 7: entry [col + 8][row + 8], in
\* units of 1 / 1000.  No entry but the one of (0, 0), which is 0, lies
\* within 0.02 of an integer, so the rounding moves no floor.
SinProductTable ==
  <<
     << 31882943, -39446143, 43325068, -43157428, 38958879, -31121567, 20377496, -7730166, -5639163, 18481794, -29598223, 37950174, -42757576, 43571415, -40315679 >>,
     << 16752254, -28179260, 36974320, -42315974, 43705312, -41012569, 34489247, -24744626, 12688854, 552058, -13741408, 25647309, -35157748, 41384450, -43745840 >>,
     << -1337379, -11935086, 24092812, -34000267, 40732094, -43659538, 42509177, -37388453, 28775645, -17475188, 4542546, 8814370, -21348023, 31887768, -39449192 >>,
     << -19190791, 6417177, 6955801, -19679107, 30564382, -38594941, 43020728, -43428374, 39779805, -32415798, 22024152, -9575448, -3767604, 16758762, -28184649 >>,
     << -33654541, 23635977, -11409810, -1882034, 14998097, -26713335, 35933545, -41797558, 43757675, -41630819, 35615641, -26273958, 14478284, -1330337, -11941863 >>,
     << -42173904, 36679964, -27760112, 16247461, -3217296, -10113364, 22499436, -32784057, 40006644, -43492606, 42916354, -38331710, 30166880, -19184460, 6410209 >>,
     << -43244108, 43245184, -39207156, 31507175, -20864420, 8272926, 5091260, -17979922, 29189257, -37672312, 42636769, -43618948, 40527111, -33650039, 23630048 >>,
     << -36676122, 42172025, -43729056, 41201789, -34826269, 25197973, -13216183, 0, 13216183, -25197973, 34826269, -41201789, 43729056, -42172025, 36676122 >>,
     << -23630048, 33650039, -40527111, 43618948, -42636769, 37672312, -29189257, 17979922, -5091260, -8272926, 20864420, -31507175, 39207156, -43245184, 43244108 >>,
     << -6410209, 19184460, -30166880, 38331710, -42916354, 43492606, -40006644, 32784057, -22499436, 10113364, 3217296, -16247461, 27760112, -36679964, 42173904 >>,
     << 11941863, 1330337, -14478284, 26273958, -35615641, 41630819, -43757675, 41797558, -35933545, 26713335, -14998097, 1882034, 11409810, -23635977, 33654541 >>,
     << 28184649, -16758762, 3767604, 9575448, -22024152, 32415798, -39779805, 43428374, -43020728, 38594941, -30564382, 19679107, -6955801, -6417177, 19190791 >>,
     << 39449192, -31887768, 21348023, -8814370, -4542546, 17475188, -28775645, 37388453, -42509177, 43659538, -40732094, 34000267, -24092812, 11935086, 1337379 >>,
     << 43745840, -41384450, 35157748, -25647309, 13741408, -552058, -12688854, 24744626, -34489247, 41012569, -43705312, 42315974, -36974320, 28179260, -16752254 >>,
     << 40315679, -43571415, 42757576, -37950174, 29598223, -18481794, 5639163, 7730166, -20377496, 31121567, -38958879, 43157428, -43325068, 39446143, -31882943 >>
  >>

SinProduct(c, r) == SinProductTable[c + 8][r + 8]

\* Whether the fixed-point number v is an integer.
IsIntegral(v) == v % 1000 = 0

\* A faulty variant of randomHash: the absolute value taken before the floor.
randomHashAbsFirst(c, r) == MathFloor(Abs(SinProduct(c, r)))

\* Math.abs(Math.floor(Math.sin(col * 12.9898 + row * 78.233) * 43758.5453))
randomHash(c, r) == Abs(MathFloor(SinProduct(c, r)))

\* A faulty variant of getAlternationIndex: 'rows' and 'cols' read the other
\* coordinate.
getAlternationIndexSwapped(c, r, pat, count) ==
    IF count <= 1 THEN 0
    ELSE CASE pat = "checkerboard" -> safeMod(c + r, count)
           [] pat = "rows"         -> safeMod(c, count)
           [] pat = "cols"         -> safeMod(r, count)
           [] pat = "random"       -> JsRem(randomHash(c, r), count)
           [] pat = "sequence"     -> safeMod(c + r * 10, count)
           [] OTHER                -> 0

Patterns == { "checkerboard", "rows", "cols", "random", "sequence", "single", "spiral" }

getAlternationIndex(c, r, pat, count) ==
    IF count <= 1 THEN 0
    ELSE CASE pat = "checkerboard" -> safeMod(c + r, count)
           [] pat = "rows"         -> safeMod(r, count)
           [] pat = "cols"         -> safeMod(c, count)
           [] pat = "random"       -> JsRem(randomHash(c, r), count)
           [] pat = "sequence"     -> safeMod(c + r * 10, count)
           [] OTHER                -> 0

Coords == (-MaxCoord) .. MaxCoord

\* The state before the call: any cell coordinate, any pattern string, and
\* images.length >= 1 (renderScene returns at once when there is no image).
InitAlt ==
    /\ IdleQuant /\ IdleSample /\ IdleRelax /\ IdleRender
    /\ IdleTimer
    /\ col \in Coords
    /\ row \in Coords
    /\ pattern \in Patterns
    /\ imageCount \in 1 .. MaxImages
    /\ imgIdx = -1
    /\ altPc = "call"

\* const imgIdx = getAlternationIndex(col, row, pattern, images.length);
PickSource ==
    /\ altPc = "call"
    /\ imgIdx' = getAlternationIndex(col, row, pattern, imageCount)
    /\ altPc' = "picked"
    /\ UNCHANGED << col, row, pattern, imageCount, quantVars, sampleVars, relaxVars,
                    renderVars, timerVars >>

NextAlt == PickSource

SpecAlt == InitAlt /\ [][NextAlt]_vars

----------------------------------------------------------------------------
(* quantization.js: quantizeImage                                          *)

\* A Uint8ClampedArray is a sequence of bytes; the byte at index i of the
\* code is element i + 1.  Pixel k (k >= 1) holds bytes 4k-3 .. 4k.
Red(pd, k)   == pd[4 * k - 3]
Green(pd, k) == pd[4 * k - 2]
Blue(pd, k)  == pd[4 * k - 1]
Alpha(pd, k) == pd[4 * k]

PixelCount(pd) == Len(pd) \div 4

\* A store into a Uint8ClampedArray clamps to 0 .. 255.
Clamp8(v) == IF v < 0 THEN 0 ELSE IF v > 255 THEN 255 ELSE v

\* if (pixelData[i + 3] < 128) continue; // Ignore transparent
IsCandidate(pd, k) == ~(Alpha(pd, k) < 128)

\* The list pixels: the [r, g, b] of every candidate pixel, in buffer order.
RECURSIVE candidatePixelsFrom(_, _)
candidatePixelsFrom(pd, k) ==
    IF k > PixelCount(pd) THEN << >>
    ELSE (IF IsCandidate(pd, k)
          THEN << << Red(pd, k), Green(pd, k), Blue(pd, k) >> >>
          ELSE << >>) \o candidatePixelsFrom(pd, k + 1)

candidatePixels(pd) == candidatePixelsFrom(pd, 1)

maxSamples == 5000

\* const step = Math.floor(pixels.length / maxSamples);
sampleStep(n) == n \div maxSamples

\* The indices the sampling loop visits: i = 0; i < n; i += step.
sampleIndices(n) ==
    IF n > maxSamples
    THEN { i \in 0 .. (n - 1) : i % sampleStep(n) = 0 }
    ELSE 0 .. (n - 1)

\* samplePixels: pixels itself, or the pixels at the visited indices.
samplePixelsOf(pixels) ==
    IF Len(pixels) > maxSamples
    THEN [ j \in 1 .. Cardinality(sampleIndices(Len(pixels))) |->
              pixels[(j - 1) * sampleStep(Len(pixels)) + 1] ]
    ELSE pixels

\* The loop over the palette: minDist starts at Infinity (here -1) and pColor
\* at palette[0]; a colour replaces pColor when it is strictly nearer.
RECURSIVE nearestLoop(_, _, _, _, _)
nearestLoop(pal, j, rgb, minDist, pColor) ==
    IF j > Len(pal) THEN pColor
    ELSE LET color == pal[j]
             dr == rgb[1] - color[1]
             dg == rgb[2] - color[2]
             db == rgb[3] - color[3]
             dist == dr * dr + dg * dg + db * db
         IN  IF minDist = -1 \/ dist < minDist
             THEN nearestLoop(pal, j + 1, rgb, dist, color)
             ELSE nearestLoop(pal, j + 1, rgb, minDist, pColor)

nearestColor(pal, rgb) == nearestLoop(pal, 1, rgb, -1, pal[1])

\* A faulty variant of remapPixel: a fully transparent pixel is remapped like the
\* others.
remapPixelNoZeroing(pd, pal, k) ==
    LET pColor == nearestColor(pal, << Red(pd, k), Green(pd, k), Blue(pd, k) >>)
    IN  << Clamp8(pColor[1]), Clamp8(pColor[2]), Clamp8(pColor[3]),
           Clamp8(Alpha(pd, k)) >>

\* A faulty variant of remapPixel: the alpha of a remapped pixel is made opaque.
remapPixelOpaque(pd, pal, k) ==
    IF Alpha(pd, k) = 0 THEN << 0, 0, 0, 0 >>
    ELSE LET pColor == nearestColor(pal, << Red(pd, k), Green(pd, k), Blue(pd, k) >>)
         IN  << Clamp8(pColor[1]), Clamp8(pColor[2]), Clamp8(pColor[3]), 255 >>

\* One turn of the remap loop: the four bytes written for pixel k.
remapPixel(pd, pal, k) ==
    IF Alpha(pd, k) = 0 THEN << 0, 0, 0, 0 >>
    ELSE LET pColor == nearestColor(pal, << Red(pd, k), Green(pd, k), Blue(pd, k) >>)
         IN  << Clamp8(pColor[1]), Clamp8(pColor[2]), Clamp8(pColor[3]),
                Clamp8(Alpha(pd, k)) >>

\* new Uint8ClampedArray(pixelData.length), filled by the remap loop.
remap(pd, pal) ==
    [ i \in 1 .. Len(pd) |-> remapPixel(pd, pal, (i + 3) \div 4)[((i - 1) % 4) + 1] ]

\* A faulty variant of colorCountOutOfRange: 1 is let through.
colorCountOutOfRangeFrom1(cc) == cc < 1 \/ cc > 256

\* if (colorCount < 2 || colorCount > 256) return pixelData;
colorCountOutOfRange(cc) == cc < 2 \/ cc > 256

\* A faulty variant of quantizeImage: the remap is written into pixelData itself.
quantizeImageInPlace(pd, cc, colorMap) ==
    IF colorCountOutOfRange(cc) \/ Len(candidatePixels(pd)) = 0 \/ colorMap = << >>
    THEN [ input |-> pd, fresh |-> << >>, pal |-> << >>, ret |-> "pixelData" ]
    ELSE [ input |-> remap(pd, colorMap), fresh |-> << >>, pal |-> colorMap,
           ret |-> "pixelData" ]

\* quantizeImage(pixelData, colorCount), where colorMap is what the quantize
\* library answers when it is asked: << >> for false, else its palette().
\* input: the caller's buffer after the call; fresh: the buffer the call
\* allocated (<< >>: none); pal: the palette built (<< >>: none); ret: the
\* buffer returned.
quantizeImage(pd, cc, colorMap) ==
    IF colorCountOutOfRange(cc)
    THEN [ input |-> pd, fresh |-> << >>, pal |-> << >>, ret |-> "pixelData" ]
    ELSE IF Len(candidatePixels(pd)) = 0
    THEN [ input |-> pd, fresh |-> << >>, pal |-> << >>, ret |-> "pixelData" ]
    ELSE IF colorMap = << >>
    THEN [ input |-> pd, fresh |-> << >>, pal |-> << >>, ret |-> "pixelData" ]
    ELSE [ input |-> pd, fresh |-> remap(pd, colorMap), pal |-> colorMap,
           ret |-> "newPixelData" ]

\* Colours and alphas of the buffers handed in.
InputColors == { << 255, 255, 255 >>, << 250, 10, 10 >> }
InputAlphas == { 0, 127, 128 }
InputPixels == { c \o << a >> : c \in InputColors, a \in InputAlphas }

RECURSIVE Flatten(_)
Flatten(pixels) ==
    IF pixels = << >> THEN << >> ELSE Head(pixels) \o Flatten(Tail(pixels))

InputBuffers ==
    UNION { { Flatten(ps) : ps \in [ 1 .. n -> InputPixels ] } : n \in 0 .. MaxPixels }

ColorCounts == { 0, 1, 2, 3, 256, 257, 300 }

\* What quantize(samplePixels, colorCount) of the quantize library may
\* answer, whatever it is given: false (<< >>), or a colour map whose
\* palette() holds 1 .. colorCount colours.  The library averages 5-bit
\* histogram boxes, so a palette colour need not be a colour of the image:
\* white comes back as (252, 252, 252), black as (4, 4, 4).
PaletteColors == { << 4, 4, 4 >>, << 252, 252, 252 >> }

Min(a, b) == IF a < b THEN a ELSE b

QuantizeAnswers(samplePixels, cc) ==
    { << >> } \cup
    UNION { [ 1 .. n -> PaletteColors ] : n \in 1 .. Min(cc, MaxPalette) }

InitQuant ==
    /\ IdleAlt /\ IdleSample /\ IdleRelax /\ IdleRender
    /\ IdleTimer
    /\ pixelData \in InputBuffers
    /\ callerCopy = pixelData
    /\ colorCount \in ColorCounts
    /\ palette = << >>
    /\ newPixelData = << >>
    /\ returned = "none"
    /\ quantPc = "call"

\* One call of quantizeImage(pixelData, colorCount).
Quantize ==
    /\ quantPc = "call"
    /\ \E colorMap \in QuantizeAnswers(samplePixelsOf(candidatePixels(pixelData)),
                                        colorCount) :
          LET r == quantizeImage(pixelData, colorCount, colorMap)
          IN  /\ pixelData' = r.input
              /\ newPixelData' = r.fresh
              /\ palette' = r.pal
              /\ returned' = r.ret
    /\ quantPc' = "done"
    /\ UNCHANGED << callerCopy, colorCount, altVars, sampleVars, relaxVars,
                    renderVars, timerVars >>

NextQuant == Quantize

SpecQuant == InitQuant /\ [][NextQuant]_vars

----------------------------------------------------------------------------
(* quantization.js: the stride sample, on the length of the candidate list *)

CandidateCounts ==
    ((maxSamples - SampleSpan) .. (maxSamples + SampleSpan))
        \cup { 2 * maxSamples - 1, 2 * maxSamples, 12345 }

InitSample ==
    /\ IdleAlt /\ IdleQuant /\ IdleRelax /\ IdleRender
    /\ IdleTimer
    /\ candidateCount \in CandidateCounts
    /\ sampleCount = 0
    /\ samplePc = "sample"

\* let samplePixels = pixels; if (pixels.length > maxSamples) { ... }
TakeSample ==
    /\ samplePc = "sample"
    /\ sampleCount' = Cardinality(sampleIndices(candidateCount))
    /\ samplePc' = "sampled"
    /\ UNCHANGED << candidateCount, altVars, quantVars, relaxVars,
                    renderVars, timerVars >>

NextSample == TakeSample

SpecSample == InitSample /\ [][NextSample]_vars

----------------------------------------------------------------------------
(* Non-integer numbers of the stipple loop are exact fractions << n, d >>  *)
(* with d > 0, in lowest terms; << 0, 0 >> is NaN and << 1, 0 >>,          *)
(* << -1, 0 >> are the infinities.                                         *)

RECURSIVE Gcd(_, _)
Gcd(a, b) == IF b = 0 THEN a ELSE Gcd(b, a % b)

Lcm(a, b) == (a \div Gcd(a, b)) * b

Frac(n, d) == LET g == Gcd(Abs(n), d) IN << n \div g, d \div g >>

NaN == << 0, 0 >>

\* n / d of JavaScript, for integers n and d >= 0.
JsDivide(n, d) ==
    IF d = 0
    THEN (IF n = 0 THEN NaN ELSE IF n > 0 THEN << 1, 0 >> ELSE << -1, 0 >>)
    ELSE Frac(n, d)

IsFinite(a) == a[2] # 0

FracLess(a, b) == a[1] * b[2] < b[1] * a[2]

FracMin(a, b) == IF FracLess(b, a) THEN b ELSE a

FracMax(a, b) == IF FracLess(a, b) THEN b ELSE a

\* Math.floor and Math.ceil of a fraction, as integers.
FracFloor(a) == a[1] \div a[2]

FracCeil(a) == -((-a[1]) \div a[2])

----------------------------------------------------------------------------
(* tessellation.js: generateRandomPoints, computeVoronoi                    *)

\* Math.random() * limit lies in [0, limit), limit a fraction; the model
\* draws 0 and the midpoints 1/2, 3/2, ... below limit.
RandomCoords(limit) ==
    { << 0, 1 >> }
        \cup { c \in { Frac(2 * k + 1, 2) : k \in 0 .. FracCeil(limit) } :
                 FracLess(c, limit) }

\* The point sets generateRandomPoints(w, h, count) may return: a point is
\* the pair << x, y >>.
generateRandomPoints(w, h, count) ==
    [ 1 .. count -> RandomCoords(<< w, 1 >>) \X RandomCoords(h) ]

RECURSIVE LcmOfDens(_, _)
LcmOfDens(pts, i) ==
    IF i > Len(pts) THEN 1
    ELSE Lcm(Lcm(pts[i][1][2], pts[i][2][2]), LcmOfDens(pts, i + 1))

\* The coordinates of site i in units of 1 / L, L a common denominator.
ScaledX(pts, L, i) == pts[i][1][1] * (L \div pts[i][1][2])

ScaledY(pts, L, i) == pts[i][2][1] * (L \div pts[i][2][2])

\* d3-delaunay triangulates one point of each group of coincident points; the
\* others get no incoming edge (inedges[i] = -1) and no cell.  Which point of
\* a group is kept is the library's matter: any one.
CellChoices(pts) ==
    { hc \in [ 1 .. Len(pts) -> BOOLEAN ] :
        \A i \in 1 .. Len(pts) :
            Cardinality({ j \in 1 .. Len(pts) : pts[j] = pts[i] /\ hc[j] }) = 1 }

\* const delaunay = Delaunay.from(points);
\* return delaunay.voronoi([0, 0, width, height]);
\* The subdivisions the call may return: points is delaunay.points, a site is
\* 1 .. Len(points) (the code's i is the site i + 1).
computeVoronoi(pts, w, h) ==
    { [ points |-> pts, hasCell |-> hc, xmax |-> w, ymax |-> h ] :
        hc \in CellChoices(pts) }

\* A common denominator of the coordinates of the sites and of ymax.
CommonDen(v) == Lcm(LcmOfDens(v.points, 1), v.ymax[2])

\* The half planes a * x + b * y <= c, as << a, b, c >> in units of 1 / L,
\* whose intersection is the cell of site i: nearer to i than to any other
\* site that has a cell, and inside [0, xmax] x [0, ymax].
HalfPlanes(v, L, i) ==
    LET xi == ScaledX(v.points, L, i)
        yi == ScaledY(v.points, L, i)
    IN  { << 2 * (ScaledX(v.points, L, j) - xi),
             2 * (ScaledY(v.points, L, j) - yi),
             ScaledX(v.points, L, j) * ScaledX(v.points, L, j)
               + ScaledY(v.points, L, j) * ScaledY(v.points, L, j)
               - xi * xi - yi * yi >> :
          j \in { k \in 1 .. Len(v.points) : k # i /\ v.hasCell[k] } }
        \cup { << -1, 0, 0 >>, << 1, 0, v.xmax * L >>,
               << 0, -1, 0 >>, << 0, 1, v.ymax[1] * (L \div v.ymax[2]) >> }

\* The crossing of the border lines of two half planes, as
\* << xn, yn, det >> with det > 0 for the point (xn / det, yn / det), or
\* << 0, 0, 0 >> when the lines are parallel.
Crossing(l1, l2) ==
    LET det == l1[1] * l2[2] - l2[1] * l1[2]
        xn  == l1[3] * l2[2] - l2[3] * l1[2]
        yn  == l1[1] * l2[3] - l2[1] * l1[3]
    IN  IF det = 0 THEN << 0, 0, 0 >>
        ELSE IF det < 0 THEN << -xn, -yn, -det >>
        ELSE << xn, yn, det >>

\* voronoi.cellPolygon(i): the vertices of the clipped cell of site i, each a
\* point << x, y >> of fractions; {} stands for null (no cell).
cellPolygon(v, i) ==
    IF ~v.hasCell[i] THEN {}
    ELSE LET L  == CommonDen(v)
             hp == HalfPlanes(v, L, i)
             cr == { Crossing(l1, l2) : l1 \in hp, l2 \in hp }
         IN  { << << c[1], c[3] * L >>, << c[2], c[3] * L >> >> :
                 c \in { d \in cr :
                           /\ d[3] # 0
                           /\ \A l \in hp :
                                 l[1] * d[1] + l[2] * d[2] <= l[3] * d[3] } }

\* The squared distance of the pixel (x, y) to site j, in units of 1 / L^2.
Dist2(pts, L, j, x, y) ==
    (x * L - ScaledX(pts, L, j)) * (x * L - ScaledX(pts, L, j))
        + (y * L - ScaledY(pts, L, j)) * (y * L - ScaledY(pts, L, j))

\* voronoi.contains(i, x, y): delaunay._step(i, x, y) === i, that is, site i
\* has a cell and no site with a cell is strictly nearer to (x, y).
contains(v, i, x, y) ==
    LET L == LcmOfDens(v.points, 1)
    IN  /\ v.hasCell[i]
        /\ \A j \in 1 .. Len(v.points) :
              v.hasCell[j] =>
                  ~(Dist2(v.points, L, j, x, y) < Dist2(v.points, L, i, x, y))

----------------------------------------------------------------------------
(* tessellation.js: relaxPoints                                             *)

RECURSIVE FoldMin(_, _)
FoldMin(S, least) ==
    IF S = {} THEN least
    ELSE LET e == CHOOSE e \in S : TRUE
         IN  FoldMin(S \ {e}, FracMin(least, e))

RECURSIVE FoldMax(_, _)
FoldMax(S, most) ==
    IF S = {} THEN most
    ELSE LET e == CHOOSE e \in S : TRUE
         IN  FoldMax(S \ {e}, FracMax(most, e))

\* The box scanned for a polygon: << minX, maxX, minY, maxY >> after the
\* loop over the vertices and the floor / ceil / clamp that follows it; w is
\* an integer and h a fraction.
boundingBox(polygon, w, h) ==
    LET minX == FoldMin({ q[1] : q \in polygon }, << w, 1 >>)
        maxX == FoldMax({ q[1] : q \in polygon }, << 0, 1 >>)
        minY == FoldMin({ q[2] : q \in polygon }, h)
        maxY == FoldMax({ q[2] : q \in polygon }, << 0, 1 >>)
    IN  << FracFloor(FracMax(<< 0, 1 >>, minX)),
           FracCeil(FracMin(<< w - 1, 1 >>, maxX)),
           FracFloor(FracMax(<< 0, 1 >>, minY)),
           FracCeil(FracMin(Frac(h[1] - h[2], h[2]), maxY)) >>

\* The pixels of the box that voronoi.contains(i, x, y) accepts.
scannedInCell(v, w, h, i) ==
    LET box == boundingBox(cellPolygon(v, i), w, h)
    IN  { q \in (box[1] .. box[2]) \X (box[3] .. box[4]) :
            contains(v, i, q[1], q[2]) }

\* pixelData[idx] is undefined when idx = (y * width + x) * 4 lies outside
\* the buffer.
OutsideBuffer(pd, w, x, y) == (y * w + x) * 4 + 2 >= Len(pd)

\* weight = 1 - (r + g + b) / (3 * 255) of the pixel (x, y), in units of
\* 1 / 765; idx = (y * width + x) * 4.  The weight of a pixel outside the
\* buffer is NaN, written -1.
weight765(pd, w, x, y) ==
    LET idx == (y * w + x) * 4
    IN  IF OutsideBuffer(pd, w, x, y) THEN -1
        ELSE 765 - (pd[idx + 1] + pd[idx + 2] + pd[idx + 3])

RECURSIVE SumInside(_, _, _, _)
SumInside(S, pd, w, kind) ==
    IF S = {} THEN 0
    ELSE LET q == CHOOSE q \in S : TRUE
             t == weight765(pd, w, q[1], q[2])
         IN  (CASE kind = "x" -> q[1] * t
                [] kind = "y" -> q[2] * t
                [] OTHER      -> t)
             + SumInside(S \ {q}, pd, w, kind)

\* xSum, ySum and weightSum (kind "x", "y", "w") over the pixels S, in units
\* of 1 / 765.  A sum of weights is never negative; a sum with a NaN term is
\* NaN, written -1.
SumOver(S, pd, w, kind) ==
    IF \E q \in S : OutsideBuffer(pd, w, q[1], q[2]) THEN -1
    ELSE SumInside(S, pd, w, kind)

\* The point pushed for a site that has a polygon.
relaxedSite(v, pd, w, h, i) ==
    LET S         == scannedInCell(v, w, h, i)
        xSum      == SumOver(S, pd, w, "x")
        ySum      == SumOver(S, pd, w, "y")
        weightSum == SumOver(S, pd, w, "w")
    IN  IF weightSum > 0
        THEN << JsDivide(xSum, weightSum), JsDivide(ySum, weightSum) >>
        ELSE v.points[i]

\* for (let i = 0; i < siteCount; i++) { ...; if (!polygon) continue; ... }
RECURSIVE relaxFrom(_, _, _, _, _)
relaxFrom(v, pd, w, h, i) ==
    IF i > Len(v.points) THEN << >>
    ELSE (IF cellPolygon(v, i) = {} THEN << >>
          ELSE << relaxedSite(v, pd, w, h, i) >>)
         \o relaxFrom(v, pd, w, h, i + 1)

relaxPoints(v, pd, w, h) == relaxFrom(v, pd, w, h, 1)

\* The canvases << width, height >>: width = maxWidth is an integer and
\* height = maxWidth * aspect a fraction.  The pixels of imagePixelData[0]
\* are opaque; the buffer that getImageData(0, 0, width, height) returns has
\* floor(height) rows.
CanvasSizes == { << 2, << 2, 1 >> >>, << 2, << 5, 2 >> >> }

DensityPixels == { << 255, 255, 255, 255 >>, << 0, 0, 0, 255 >> }

DensityBuffers(w, h) ==
    { Flatten(ps) : ps \in [ 1 .. (w * FracFloor(h)) -> DensityPixels ] }

\* let points = generateRandomPoints(width, height, pointCount);
InitRelax ==
    /\ IdleAlt /\ IdleQuant /\ IdleSample /\ IdleRender
    /\ IdleTimer
    /\ \E size \in CanvasSizes : width = size[1] /\ height = size[2]
    /\ density \in DensityBuffers(width, height)
    /\ \E count \in 0 .. MaxSites :
          points \in generateRandomPoints(width, height, count)
    /\ voronoi = NoVoronoi
    /\ prevPoints = << >>
    /\ iteration = 0
    /\ relaxPc = "relax"

\* One turn of the loop: voronoi = computeVoronoi(currentPoints, ...);
\* currentPoints = relaxPoints(voronoi, imagePixelData[0], width, height);
RelaxTurn ==
    /\ relaxPc = "relax"
    /\ iteration < MaxIterations
    /\ \E v \in computeVoronoi(points, width, height) :
          /\ voronoi' = v
          /\ points' = relaxPoints(v, density, width, height)
    /\ prevPoints' = points
    /\ iteration' = iteration + 1
    /\ UNCHANGED << width, height, density, relaxPc, altVars, quantVars, sampleVars,
                    renderVars, timerVars >>

NextRelax == RelaxTurn

SpecRelax == InitRelax /\ [][NextRelax]_vars

----------------------------------------------------------------------------
(* The drawing loops of renderScene (src/src/App.jsx).  Coordinates are    *)
(* real numbers, held in units of 1/1000, and so are the height of the     *)
(* canvas, the sampled position and the byte index computed from it; the   *)
(* width and the slider value scale are integers.                          *)

\* Math.sqrt(3), in units of 1/1000
SQRT3 == 1732

\* A faulty variant of sampleCoord: the coordinate is clamped to limit, not
\* to limit - 1.
sampleCoordToLimit(limit, v) ==
    LET floored == MathFloor(v) * 1000
        least   == IF floored > limit THEN limit ELSE floored
    IN  IF least < 0 THEN 0 ELSE least

\* Math.max(0, Math.min(limit - 1, Math.floor(v))), limit and v in units of
\* 1/1000 and so the result
sampleCoord(limit, v) ==
    LET floored == MathFloor(v) * 1000
        least   == IF floored > limit - 1000 THEN limit - 1000 ELSE floored
    IN  IF least < 0 THEN 0 ELSE least

\* (sampleY * width + sampleX) * 4, in units of 1/1000
pixelIndex(w, sampleX, sampleY) == (sampleY * w + sampleX) * 4

\* pixels[k] of a Uint8ClampedArray, k in units of 1/1000: undefined,
\* written -1, when k is no integer or lies outside the buffer
ByteAt(pixels, k) ==
    IF k % 1000 = 0 /\ k >= 0 /\ (k \div 1000) < Len(pixels)
    THEN pixels[(k \div 1000) + 1]
    ELSE -1

\* rgb(pixels[idx], pixels[idx + 1], pixels[idx + 2])
rgbAt(pixels, idx) ==
    << ByteAt(pixels, idx), ByteAt(pixels, idx + 1000),
       ByteAt(pixels, idx + 2000) >>

\* imagePixelData[imgIdx]: undefined outside the array
BufferAt(data, i) == IF i >= 0 /\ i < Len(data) THEN data[i + 1] ELSE << >>

\* The body of a drawing loop for the cell (c, r) centred at (x, y), on a
\* canvas of width w and height h (in units of 1/1000): the source image of
\* the cell, the sampled position and the colour read there.
drawCell(data, w, h, pat, c, r, x, y) ==
    LET i  == getAlternationIndex(c, r, pat, Len(data))
        sx == sampleCoord(w * 1000, x)
        sy == sampleCoord(h, y)
        k  == pixelIndex(w, sx, sy)
    IN  [ col |-> c, row |-> r, x |-> x, y |-> y, imgIdx |-> i,
          sampleX |-> sx, sampleY |-> sy, idx |-> k,
          color |-> rgbAt(BufferAt(data, i), k) ]

\* getImageData(0, 0, width, height).data has floor(height) rows.
\* An image whose bytes count up, so that different pixels differ.
GradientBuffer(w, h) == [ p \in 1..(4 * w * MathFloor(h)) |-> (p - 1) % 256 ]

\* A one-colour opaque image.
SolidBuffer(w, h, rgb) ==
    [ p \in 1..(4 * w * MathFloor(h)) |->
        IF (p - 1) % 4 = 3 THEN 255 ELSE rgb[((p - 1) % 4) + 1] ]

\* The slider of scale: integers from 4 to 80.
Scales == {4, 5}

\* Coordinates on and off a side of length limit, all in units of 1/1000.
PixelCoords(limit) ==
    {-5000, limit + 50000}
        \cup { k * 500 : k \in (-3)..(2 * MathFloor(limit) + 3) }

InitPixel ==
    /\ IdleQuant /\ IdleSample /\ IdleRelax /\ IdleTimer
    /\ col = 0 /\ row = 0 /\ imgIdx = -1 /\ altPc = "idle"
    /\ pattern = "checkerboard"
    /\ imageCount = 1
    /\ bufWidth \in 1..MaxBufSide
    /\ bufHeight \in { k * 500 : k \in 2..(2 * MaxBufSide) }
    /\ imagePixelData = << GradientBuffer(bufWidth, bufHeight) >>
    /\ scale \in Scales
    /\ hexRow = -1 /\ hexCol = -1
    /\ cell = NoCell
    /\ renderPc = "points"

\* One turn of the loop over the points of the voronoi and stipple modes, for
\* a point (x, y).
SamplePoint ==
    /\ renderPc = "points"
    /\ \E x \in PixelCoords(bufWidth * 1000), y \in PixelCoords(bufHeight) :
          cell' = drawCell(imagePixelData, bufWidth, bufHeight, pattern,
                           x \div (scale * 2000), y \div (scale * 2000), x, y)
    /\ UNCHANGED << bufWidth, bufHeight, imagePixelData, scale, hexRow, hexCol,
                    renderPc, altVars, quantVars, sampleVars, relaxVars,
                    timerVars >>

NextPixel == SamplePoint

SpecPixel == InitPixel /\ [][NextPixel]_vars

\* hSpacing and vSpacing of the hex mode, in units of 1/1000
hSpacing(sc) == sc * SQRT3

vSpacing(sc) == sc * 1500

\* row < (height / vSpacing) + 1, and the same for col
rowInRange(r, h, sc) == (r - 1) * vSpacing(sc) < h

colInRange(c, w, sc) == (c - 1) * hSpacing(sc) < w * 1000

\* col * hSpacing + (row % 2 === 0 ? 0 : hSpacing / 2), and row * vSpacing
hexX(c, r, sc) ==
    c * hSpacing(sc) + (IF JsRem(r, 2) = 0 THEN 0 ELSE hSpacing(sc) \div 2)

hexY(r, sc) == r * vSpacing(sc)

White == << 255, 255, 255 >>

Black == << 0, 0, 0 >>

InitHex ==
    /\ IdleQuant /\ IdleSample /\ IdleRelax /\ IdleTimer
    /\ col = 0 /\ row = 0 /\ imgIdx = -1 /\ altPc = "idle"
    /\ pattern \in {"checkerboard", "rows"}
    /\ imageCount = 2
    /\ bufWidth \in 8..MaxHexSide
    /\ bufHeight \in { k * 1000 + f : k \in 8..MaxHexSide, f \in {0, 333, 500} }
    /\ imagePixelData = << SolidBuffer(bufWidth, bufHeight, White),
                           SolidBuffer(bufWidth, bufHeight, Black) >>
    /\ scale \in Scales
    /\ hexRow = -1 /\ hexCol = -1
    /\ cell = NoCell
    /\ renderPc = "hex"

\* One turn of the inner loop: the hexagon (hexCol, hexRow) is drawn.
DrawHexagon ==
    /\ renderPc = "hex"
    /\ rowInRange(hexRow, bufHeight, scale)
    /\ colInRange(hexCol, bufWidth, scale)
    /\ cell' = drawCell(imagePixelData, bufWidth, bufHeight, pattern,
                        hexCol, hexRow,
                        hexX(hexCol, hexRow, scale), hexY(hexRow, scale))
    /\ hexCol' = hexCol + 1
    /\ UNCHANGED << bufWidth, bufHeight, imagePixelData, scale, hexRow,
                    renderPc, altVars, quantVars, sampleVars, relaxVars,
                    timerVars >>

\* The inner loop ends and the outer loop takes its next row.
NextHexRow ==
    /\ renderPc = "hex"
    /\ rowInRange(hexRow, bufHeight, scale)
    /\ ~ colInRange(hexCol, bufWidth, scale)
    /\ hexRow' = hexRow + 1
    /\ hexCol' = -1
    /\ UNCHANGED << bufWidth, bufHeight, imagePixelData, scale, cell,
                    renderPc, altVars, quantVars, sampleVars, relaxVars,
                    timerVars >>

\* The outer loop ends.
HexDone ==
    /\ renderPc = "hex"
    /\ ~ rowInRange(hexRow, bufHeight, scale)
    /\ renderPc' = "done"
    /\ UNCHANGED << bufWidth, bufHeight, imagePixelData, scale, hexRow, hexCol,
                    cell, altVars, quantVars, sampleVars, relaxVars,
                    timerVars >>

NextHex == DrawHexagon \/ NextHexRow \/ HexDone

SpecHex == InitHex /\ [][NextHex]_vars

----------------------------------------------------------------------------
(* The render trigger of src/src/App.jsx: the effect that starts a 50 ms   *)
(* timer at every change of scale, gap, mode, images, pattern or           *)
(* stippleIterations and clears the timer of the change before, and the    *)
(* calls of renderScene that the timers make.  Time passes in steps of     *)
(* 10 ms; a timer fires when its delay has passed, and a change may come   *)
(* at any moment.  A timer and a waiting call are records of the change    *)
(* whose state values their closure holds (version), that state's          *)
(* images.length, and the time left.                                       *)

\* setTimeout(() => { renderScene(); }, 50)
timeoutDelay == 50

\* await new Promise(resolve => setTimeout(resolve, 10))
awaitDelay == 10

\* The canvas element exists while images is not empty: canvasRef.current
\* is null otherwise.
CanvasMounted == imagesLength > 0

\* The effect after a render with new state values: the cleanup of the
\* effect before clears its timer, if that is still pending, and a new timer
\* starts.
runEffect(pending, version, len) ==
    { t \in pending : t.version # version - 1 }
        \cup { [ version |-> version, images |-> len, left |-> timeoutDelay ] }

\* The first render of App: no image, and the effect runs once.
InitTimer ==
    /\ IdleAlt /\ IdleQuant /\ IdleSample /\ IdleRelax /\ IdleRender
    /\ changes = 0
    /\ imagesLength = 0
    /\ timeouts = runEffect({}, 0, 0)
    /\ renders = {}
    /\ isProcessing = FALSE
    /\ drawn = -1

\* setScale, setGap, setMode, setPattern or setStippleIterations with a new
\* value.
ChangeParameter ==
    /\ changes < MaxChanges
    /\ changes' = changes + 1
    /\ timeouts' = runEffect(timeouts, changes + 1, imagesLength)
    /\ UNCHANGED << imagesLength, renders, isProcessing, drawn, altVars,
                    quantVars, sampleVars, relaxVars, renderVars >>

\* handleImageUpload: setImages(prev => [...prev, { src: img, id: ... }])
AddImage ==
    /\ changes < MaxChanges
    /\ imagesLength < MaxImages
    /\ changes' = changes + 1
    /\ imagesLength' = imagesLength + 1
    /\ timeouts' = runEffect(timeouts, changes + 1, imagesLength + 1)
    /\ UNCHANGED << renders, isProcessing, drawn, altVars, quantVars,
                    sampleVars, relaxVars, renderVars >>

\* removeImage: setImages(prev => prev.filter(img => img.id !== id))
RemoveImage ==
    /\ changes < MaxChanges
    /\ imagesLength > 0
    /\ changes' = changes + 1
    /\ imagesLength' = imagesLength - 1
    /\ timeouts' = runEffect(timeouts, changes + 1, imagesLength - 1)
    /\ UNCHANGED << renders, isProcessing, drawn, altVars, quantVars,
                    sampleVars, relaxVars, renderVars >>

\* A timer fires and calls renderScene, which runs up to its await:
\* if (images.length === 0 || !canvasRef.current) return;
\* setIsProcessing(true); await ...
FireTimeout ==
    \E t \in timeouts :
        /\ t.left = 0
        /\ timeouts' = timeouts \ {t}
        /\ IF t.images = 0 \/ ~ CanvasMounted
           THEN UNCHANGED << renders, isProcessing >>
           ELSE /\ isProcessing' = TRUE
                /\ renders' = renders \cup
                       { [ version |-> t.version, images |-> t.images,
                           left |-> awaitDelay ] }
        /\ UNCHANGED << changes, imagesLength, drawn, altVars, quantVars,
                        sampleVars, relaxVars, renderVars >>

\* A call of renderScene goes on after its await, without a further pause up
\* to its end: canvasRef.current.getContext throws when the canvas is gone;
\* otherwise the scene is drawn with the state values of the closure and
\* setIsProcessing(false) ends the call.
ResumeRender ==
    \E r \in renders :
        /\ r.left = 0
        /\ renders' = renders \ {r}
        /\ IF ~ CanvasMounted
           THEN UNCHANGED << isProcessing, drawn >>
           ELSE /\ drawn' = r.version
                /\ isProcessing' = FALSE
        /\ UNCHANGED << changes, imagesLength, timeouts, altVars, quantVars,
                        sampleVars, relaxVars, renderVars >>

\* 10 ms pass: no timer is due.
Tick ==
    /\ timeouts \cup renders # {}
    /\ \A t \in timeouts \cup renders : t.left > 0
    /\ timeouts' = { [ t EXCEPT !.left = t.left - 10 ] : t \in timeouts }
    /\ renders' = { [ r EXCEPT !.left = r.left - 10 ] : r \in renders }
    /\ UNCHANGED << changes, imagesLength, isProcessing, drawn, altVars,
                    quantVars, sampleVars, relaxVars, renderVars >>

NextTimer ==
    \/ ChangeParameter
    \/ AddImage
    \/ RemoveImage
    \/ FireTimeout
    \/ ResumeRender
    \/ Tick

SpecTimer == InitTimer /\ [][NextTimer]_vars

----------------------------------------------------------------------------
(* Claims about getAlternationIndex, checked under SpecAlt.                *)

\* C1: for every pattern string, every integer col and row (negative ones
\* included) and every imageCount >= 1, the index returned is an integer i
\* with 0 <= i < imageCount, and it is 0 when imageCount is 1: it is a valid
\* index into the list of source buffers.
C1_IndexInRange ==
    altPc = "picked" =>
        /\ imgIdx \in 0 .. (imageCount - 1)
        /\ (imageCount = 1 => imgIdx = 0)

C1_Witness ==
    /\ altPc = "picked"
    /\ pattern = "checkerboard"
    /\ col < 0 /\ row < 0
    /\ imageCount = 3
    /\ imgIdx = 2

\* C2: for imageCount >= 2 the index is the mathematical non-negative
\* remainder: (col + row) mod imageCount for 'checkerboard', row mod
\* imageCount for 'rows', col mod imageCount for 'cols'; 'rows' gives the
\* same index for every col and 'cols' for every row.
C2_MathematicalRemainder ==
    (altPc = "picked" /\ imageCount >= 2) =>
        /\ (pattern = "checkerboard" => imgIdx = (col + row) % imageCount)
        /\ (pattern = "rows" =>
                /\ imgIdx = row % imageCount
                /\ \A c \in Coords :
                      getAlternationIndex(c, row, pattern, imageCount) = imgIdx)
        /\ (pattern = "cols" =>
                /\ imgIdx = col % imageCount
                /\ \A r \in Coords :
                      getAlternationIndex(col, r, pattern, imageCount) = imgIdx)

\* checkerboard(2, 5, 3) = 1
C2_Witness ==
    /\ altPc = "picked"
    /\ pattern = "checkerboard"
    /\ col = 2 /\ row = 5 /\ imageCount = 3
    /\ imgIdx = 1

\* floor(|s| * 43758.5453) for the cell (c, r)
FloorOfAbs(c, r) ==
    LET p == SinProduct(c, r)
    IN  (IF p < 0 THEN -p ELSE p) \div 1000

\* C3 as stated: for 'random' and imageCount >= 2 the index is
\* floor(|s| * 43758.5453) mod imageCount, s = sin(col*12.9898 + row*78.233).
C3_AbsBeforeFloor ==
    (altPc = "picked" /\ pattern = "random" /\ imageCount >= 2) =>
        imgIdx = FloorOfAbs(col, row) % imageCount

\* C3 as amended: the floor is taken before the absolute value, so the index
\* is floor(|s| * 43758.5453) mod imageCount when the product s * 43758.5453
\* is >= 0 or an integer, and (floor(|s| * 43758.5453) + 1) mod imageCount
\* when the product is negative and not an integer.
C3_FloorBeforeAbs ==
    (altPc = "picked" /\ pattern = "random" /\ imageCount >= 2) =>
        LET p == SinProduct(col, row)
        IN  IF p >= 0 \/ IsIntegral(p)
            THEN imgIdx = FloorOfAbs(col, row) % imageCount
            ELSE imgIdx = (FloorOfAbs(col, row) + 1) % imageCount

C3_Witness ==
    /\ altPc = "picked"
    /\ pattern = "random"
    /\ imageCount >= 2
    /\ SinProduct(col, row) < 0
    /\ imgIdx = (FloorOfAbs(col, row) + 1) % imageCount
    /\ imgIdx # FloorOfAbs(col, row) % imageCount

----------------------------------------------------------------------------
(* Claims about quantizeImage, checked under SpecQuant and SpecSample.    *)

\* The bytes of the buffer the call returned.
ReturnedData == IF returned = "newPixelData" THEN newPixelData ELSE pixelData

Range(f) == { f[i] : i \in DOMAIN f }

RgbOf(pd, k) == << Red(pd, k), Green(pd, k), Blue(pd, k) >>

PaletteBuilt == palette # << >>

\* C6 as stated: for 2 <= colorCount <= 256, when a palette is built, every
\* pixel of the returned buffer, whatever its alpha, has an RGB triple equal
\* to one entry of the palette.
C6_EveryPixelInPalette ==
    (quantPc = "done" /\ colorCount >= 2 /\ colorCount <= 256 /\ PaletteBuilt) =>
        \A k \in 1 .. PixelCount(ReturnedData) :
            RgbOf(ReturnedData, k) \in Range(palette)

\* C6 as amended: for 2 <= colorCount <= 256, when a palette is built, every
\* pixel of the returned buffer whose input alpha is not 0 has an RGB triple
\* equal to one entry of the palette; a pixel whose input alpha is 0 has the
\* RGB triple (0, 0, 0), in the palette or not.
C6_VisiblePixelsInPalette ==
    (quantPc = "done" /\ colorCount >= 2 /\ colorCount <= 256 /\ PaletteBuilt) =>
        /\ PixelCount(ReturnedData) = PixelCount(callerCopy)
        /\ \A k \in 1 .. PixelCount(ReturnedData) :
              IF Alpha(callerCopy, k) # 0
              THEN RgbOf(ReturnedData, k) \in Range(palette)
              ELSE RgbOf(ReturnedData, k) = << 0, 0, 0 >>

C6_Witness ==
    /\ quantPc = "done"
    /\ colorCount = 256
    /\ PaletteBuilt
    /\ PixelCount(ReturnedData) = 2
    /\ Alpha(callerCopy, 1) = 0
    /\ Alpha(callerCopy, 2) = 128
    /\ RgbOf(ReturnedData, 1) \notin Range(palette)
    /\ RgbOf(ReturnedData, 2) \in Range(palette)
    /\ RgbOf(ReturnedData, 2) # RgbOf(callerCopy, 2)

\* C7: whenever more than 5000 pixels are candidates, the stride sample
\* handed to the palette builder holds at most 5000 pixels.
C7_SampleAtMostMaxSamples ==
    (samplePc = "sampled" /\ candidateCount > 5000) => sampleCount <= 5000

\* C8: for colorCount < 2 or colorCount > 256 the call is a no-op: the buffer
\* returned is the input, identical in every byte, and no palette is built.
C8_OutOfRangeIsNoOp ==
    (quantPc = "done" /\ (colorCount < 2 \/ colorCount > 256)) =>
        /\ returned = "pixelData"
        /\ ReturnedData = callerCopy
        /\ ~PaletteBuilt
        /\ newPixelData = << >>

C8_Witness ==
    /\ quantPc = "done"
    /\ colorCount = 300
    /\ PixelCount(callerCopy) = 2
    /\ Alpha(callerCopy, 1) = 128
    /\ returned = "pixelData"
    /\ ReturnedData = callerCopy

\* C9: no path of quantizeImage changes a byte of the caller's buffer; when a
\* remap is performed the result is in a newly allocated buffer of the same
\* length, which is not the caller's buffer.
C9_InputNeverWritten ==
    quantPc = "done" =>
        /\ pixelData = callerCopy
        /\ (PaletteBuilt =>
                /\ returned = "newPixelData"
                /\ Len(newPixelData) = Len(callerCopy))
        /\ (~PaletteBuilt => returned = "pixelData" /\ newPixelData = << >>)

C9_Witness ==
    /\ quantPc = "done"
    /\ PaletteBuilt
    /\ returned = "newPixelData"
    /\ Len(newPixelData) = 8
    /\ newPixelData # callerCopy
    /\ pixelData = callerCopy

\* C10: in the remapped buffer every pixel's alpha is the input pixel's
\* alpha, every input pixel of alpha 0 is (0, 0, 0, 0), and a pixel of alpha
\* 1 .. 127, which took no part in building the palette, has a palette colour
\* and its alpha.
C10_AlphaKept ==
    (quantPc = "done" /\ returned = "newPixelData") =>
        /\ PixelCount(newPixelData) = PixelCount(callerCopy)
        /\ \A k \in 1 .. PixelCount(callerCopy) :
              /\ Alpha(newPixelData, k) = Alpha(callerCopy, k)
              /\ (Alpha(callerCopy, k) = 0 =>
                      RgbOf(newPixelData, k) = << 0, 0, 0 >>)
              /\ (Alpha(callerCopy, k) \in 1 .. 127 =>
                      RgbOf(newPixelData, k) \in Range(palette))

C10_Witness ==
    /\ quantPc = "done"
    /\ returned = "newPixelData"
    /\ PixelCount(callerCopy) = 3
    /\ Alpha(callerCopy, 1) = 0 /\ RgbOf(callerCopy, 1) # << 0, 0, 0 >>
    /\ Alpha(callerCopy, 2) = 127
    /\ Alpha(callerCopy, 3) = 128
    /\ Len(candidatePixels(callerCopy)) = 1
    /\ newPixelData[4] = 0 /\ RgbOf(newPixelData, 1) = << 0, 0, 0 >>
    /\ newPixelData[8] = 127 /\ RgbOf(newPixelData, 2) \in Range(palette)

----------------------------------------------------------------------------
(* Claims about relaxPoints, checked under SpecRelax.                      *)

\* The weight accumulated for site i in the last turn, in units of 1 / 765:
\* nothing is accumulated for a site without a polygon.
AccumulatedWeight(i) ==
    IF cellPolygon(voronoi, i) = {} THEN 0
    ELSE SumOver(scannedInCell(voronoi, width, height, i), density, width, "w")

AllWhite(pd) == \A i \in 1 .. Len(pd) : pd[i] = 255

\* C4: relaxPoints returns exactly one point per site, in site order: the
\* output is as long as the point set the subdivision was built from and
\* entry i is the relaxed position of site i, also when a site has no cell
\* polygon (coincident points), so an index names the same site turn after
\* turn.
C4_OnePointPerSite ==
    iteration > 0 =>
        /\ Len(points) = Len(prevPoints)
        /\ \A i \in 1 .. Len(prevPoints) :
              points[i] = IF cellPolygon(voronoi, i) = {}
                          THEN prevPoints[i]
                          ELSE relaxedSite(voronoi, density, width, height, i)

\* C5: a site whose accumulated weight is 0 keeps exactly its previous
\* coordinate and no coordinate is NaN or infinite; so a turn against an
\* all-white buffer returns the point set it was given.
C5_ZeroWeightKeepsCoordinate ==
    iteration > 0 =>
        /\ \A i \in 1 .. Len(points) :
              IsFinite(points[i][1]) /\ IsFinite(points[i][2])
        /\ \A i \in 1 .. Len(prevPoints) :
              AccumulatedWeight(i) = 0 =>
                  (i <= Len(points) /\ points[i] = prevPoints[i])
        /\ (AllWhite(density) => points = prevPoints)

----------------------------------------------------------------------------
(* C11: pixel sampling clamps.                                             *)

\* Clamping the real coordinate into [0, limit - 1] first and flooring the
\* result afterwards; limit, v and the result in units of 1/1000.
ClampThenFloor(limit, v) ==
    MathFloor(IF v < 0 THEN 0
              ELSE IF v > limit - 1000 THEN limit - 1000
              ELSE v) * 1000

\* The integer n in units of 1/1000.
Whole(n) == n * 1000

\* C11: for a buffer of bufWidth x bufHeight pixels, both positive integers,
\* and a sampled coordinate (x, y), the sampled pixel is (floor(x), floor(y))
\* clamped into the buffer, which is also what clamping first and flooring
\* afterwards gives; the byte index idx is an integer with 0 <= idx and
\* idx + 2 < 4 * bufWidth * bufHeight; and sampling at (-5, bufHeight + 50)
\* reads the pixel that sampling at (0, bufHeight - 1) reads.
C11_SamplingClamps ==
    (renderPc = "points" /\ cell # NoCell /\ bufHeight % 1000 = 0) =>
        /\ cell.sampleX \in { Whole(k) : k \in 0..(bufWidth - 1) }
        /\ cell.sampleY \in { Whole(k) : k \in 0..(MathFloor(bufHeight) - 1) }
        /\ Whole(MathFloor(cell.x)) \in 0..Whole(bufWidth - 1) =>
               cell.sampleX = Whole(MathFloor(cell.x))
        /\ Whole(MathFloor(cell.y)) \in 0..(bufHeight - 1000) =>
               cell.sampleY = Whole(MathFloor(cell.y))
        /\ MathFloor(cell.x) < 0 => cell.sampleX = 0
        /\ MathFloor(cell.y) < 0 => cell.sampleY = 0
        /\ MathFloor(cell.x) > bufWidth - 1 =>
               cell.sampleX = Whole(bufWidth - 1)
        /\ Whole(MathFloor(cell.y)) > bufHeight - 1000 =>
               cell.sampleY = bufHeight - 1000
        /\ cell.sampleX = ClampThenFloor(Whole(bufWidth), cell.x)
        /\ cell.sampleY = ClampThenFloor(bufHeight, cell.y)
        /\ cell.idx % 1000 = 0
        /\ 0 <= cell.idx
        /\ cell.idx + Whole(2) < Whole(4 * bufWidth * MathFloor(bufHeight))
        /\ cell.color \in (0..255) \X (0..255) \X (0..255)
        /\ (cell.x = -5000 /\ cell.y = bufHeight + 50000) =>
               LET other == drawCell(imagePixelData, bufWidth, bufHeight,
                                     pattern, 0, 0, 0, bufHeight - 1000)
               IN  /\ cell.sampleX = other.sampleX
                   /\ cell.sampleY = other.sampleY
                   /\ cell.idx = other.idx
                   /\ cell.color = other.color

\* A sample at (-5, bufHeight + 50) of a buffer of several rows and columns
\* has been taken.
C11_Witness ==
    /\ renderPc = "points"
    /\ bufWidth > 1 /\ bufHeight > 1000 /\ bufHeight % 1000 = 0
    /\ cell.x = -5000 /\ cell.y = bufHeight + 50000
    /\ cell.sampleX = 0 /\ cell.sampleY = bufHeight - 1000
    /\ Len(cell.color) = 3

----------------------------------------------------------------------------
(* C12: the hexagon loop over a white and a black buffer.                  *)

\* C12: with a solid white buffer at index 0, a solid black buffer of the
\* same size at index 1 and the pattern checkerboard, every hexagon
\* (col, row) that the loop draws, the padding cells with col = -1 or
\* row = -1 included, is white when col + row is even and black when it is
\* odd.
C12_HexCheckerboard ==
    (renderPc \in {"hex", "done"} /\ pattern = "checkerboard" /\ cell # NoCell) =>
        cell.color = (IF (cell.col + cell.row) % 2 = 0 THEN White ELSE Black)

----------------------------------------------------------------------------
(* C13: the scan of relaxPoints over the bounding box of a cell.           *)

\* The polygon lies within [0, w] x [0, h].
WithinCanvas(polygon, w, h) ==
    \A q \in polygon :
        /\ ~ FracLess(q[1], << 0, 1 >>) /\ ~ FracLess(<< w, 1 >>, q[1])
        /\ ~ FracLess(q[2], << 0, 1 >>) /\ ~ FracLess(h, q[2])

\* All pixels (x, y) with 0 <= x <= w - 1 and 0 <= y <= h - 1 that
\* voronoi.contains(i, x, y) accepts.
AcceptedOnCanvas(v, w, h, i) ==
    { q \in (0 .. (w - 1)) \X (0 .. FracFloor(Frac(h[1] - h[2], h[2]))) :
        contains(v, i, q[1], q[2]) }

\* C13: for every site of the last turn whose polygon lies within
\* [0, width] x [0, height], the weight sum and the weighted coordinate sums
\* accumulated over the bounding box equal the sums over all pixels of the
\* canvas that contains(i, x, y) accepts, and the byte index of every pixel
\* scanned is inside the buffer.
C13_BoxScanLosesNothing ==
    iteration > 0 =>
        \A i \in 1 .. Len(voronoi.points) :
            LET polygon == cellPolygon(voronoi, i)
                boxed   == scannedInCell(voronoi, width, height, i)
                all     == AcceptedOnCanvas(voronoi, width, height, i)
            IN  (polygon # {} /\ WithinCanvas(polygon, width, height)) =>
                    /\ SumOver(boxed, density, width, "w")
                         = SumOver(all, density, width, "w")
                    /\ SumOver(boxed, density, width, "x")
                         = SumOver(all, density, width, "x")
                    /\ SumOver(boxed, density, width, "y")
                         = SumOver(all, density, width, "y")
                    /\ \A q \in boxed :
                          /\ 0 <= (q[2] * width + q[1]) * 4
                          /\ (q[2] * width + q[1]) * 4 + 2 < Len(density)

----------------------------------------------------------------------------
(* C14: the points of the stipple loop stay on the canvas.                 *)

\* C14: from generateRandomPoints(width, height, count) on and after every
\* turn of computeVoronoi / relaxPoints, every point (x, y) of the current
\* point set is finite with 0 <= x < width and 0 <= y < height, and every
\* pixel weight 1 - (r + g + b) / (3 * 255) computed in the last turn lies
\* in [0, 1].
C14_PointsStayOnCanvas ==
    relaxPc = "relax" =>
        /\ \A i \in 1 .. Len(points) :
              /\ IsFinite(points[i][1]) /\ IsFinite(points[i][2])
              /\ ~ FracLess(points[i][1], << 0, 1 >>)
              /\ FracLess(points[i][1], << width, 1 >>)
              /\ ~ FracLess(points[i][2], << 0, 1 >>)
              /\ FracLess(points[i][2], height)
        /\ iteration > 0 =>
              \A i \in 1 .. Len(voronoi.points) :
                  \A q \in scannedInCell(voronoi, width, height, i) :
                      weight765(density, width, q[1], q[2]) \in 0 .. 765

----------------------------------------------------------------------------
(* C15: the debounce of the render trigger.                                *)

\* Every timer has fired or was cleared and every call of renderScene has
\* ended.
Quiescent == timeouts = {} /\ renders = {}

\* C15: a change clears the pending timer of the change before, so at most
\* one timer is pending, and it is the one of the latest change; once the
\* calls of renderScene after a burst of changes have ended, isProcessing is
\* false and, when there is an image to draw, the canvas shows the scene
\* drawn with the state values of the last change.
C15_DebouncedRender ==
    /\ \A t \in timeouts : t.version = changes
    /\ Quiescent =>
          /\ isProcessing = FALSE
          /\ imagesLength > 0 => drawn = changes

====
